---- MODULE Spec2Model ----
(***************************************************************************)
(* Model of tuantle/alphabet-extractor.                                    *)
(*                                                                         *)
(*   src/unnamed/part_000  (directed-graph-tree.js)  the DTG object        *)
(*   src/src/alphabet-extractor.js                     the three extractor *)
(*                                                     functions           *)
(*                                                                         *)
(* A JavaScript string is a sequence of one-character TLA+ strings; the    *)
(* empty JavaScript string is "" where it is used as an object key or a    *)
(* vertex name.  The DTG's _map (a JavaScript Map) is the sequence of its  *)
(* node objects in insertion order.                                        *)
(***************************************************************************)
EXTENDS Integers, Sequences, FiniteSets, TLC

VARIABLES
    dtg,      \* the DTG instance: whether one was constructed, and its _map
    words,    \* the argument handed to the extractor functions
    ret       \* outcome of the last call of a function that returns a value

vars == <<dtg, words, ret>>

-----------------------------------------------------------------------------
(* Bounds of the model.                                                    *)

MaxEdges == 3          \* edges a DTG of the graph machine may hold
MaxAdd == 2            \* length of a list handed to addVertices
MaxChain == 3          \* length of a list handed to createDaisyChainEdges
MaxPathEdges == 5      \* edges a DTG may hold where it is built edge by edge
MaxQueryEdges == 3     \* edges a DTG may hold where every query is called on it
MaxWords == 3          \* words in an arbitrary word list
MaxChars == 5          \* characters of an arbitrary word list, all words together
MaxLetterWords == 4    \* words in a list of words of letters
MaxLetterLen == 2      \* length of a word of letters
MaxListWords == 4      \* words in a list of non-empty words of letters
MaxListChars == 6      \* characters of such a list, all words together

Letters == {"a", "b", "c"}
Chars == {"1", "a", "b"}
VertexNames == {"a", "b", "c", "d"}
NameOrder == <<"a", "b", "c", "d">>

\* An argument of a DTG method that is no string (a number, undefined, ...).
\* Vertex names are JavaScript strings, written as TLA+ strings; this one
\* TLA+ string stands for every value whose typeof is not 'string'.
NonStringVertex == "<no string>"

VertexArgs == VertexNames \cup {NonStringVertex}

\* An argument of addVertices or createDaisyChainEdges that is no array (a
\* string, an object, undefined, ...).  Arrays are written as TLA+ sequences;
\* this one sequence, which holds no vertex argument, stands for every value
\* that Array.isArray rejects.
NonArrayVertices == <<"<no array>">>

IsVertexArray(vertices) == vertices # NonArrayVertices

\* The arguments handed to addVertices and createDaisyChainEdges: lists of
\* strings of up to n elements, lists of up to MaxAdd elements that hold
\* a value that is no string, and a value that is no array.
VertexLists(n) ==
    UNION {[1..k -> VertexNames] : k \in 0..n}
        \cup {NonArrayVertices}
        \cup {vertices \in UNION {[1..k -> VertexArgs] : k \in 1..MaxAdd} :
                  \E i \in 1..Len(vertices) : vertices[i] = NonStringVertex}

-----------------------------------------------------------------------------
(* Generic sequence helpers.                                               *)

Range(s) == {s[i] : i \in 1..Len(s)}

Includes(s, x) == \E i \in 1..Len(s) : s[i] = x

HasDuplicates(s) == \E i, j \in 1..Len(s) : i < j /\ s[i] = s[j]

RECURSIVE Concat(_)
Concat(ss) == IF Len(ss) = 0 THEN <<>> ELSE Head(ss) \o Concat(Tail(ss))

SeqsUpTo(S, n) == UNION {[1..k -> S] : k \in 0..n}

-----------------------------------------------------------------------------
(* DTG: the Map and the vertex predicates.                                 *)

EmptyMap == <<>>

NoDTG == [constructed |-> FALSE, map |-> EmptyMap]

NewDTG == [constructed |-> TRUE, map |-> EmptyMap]

IsStringVertex(vertex) == vertex # NonStringVertex

\* _map.has(vertex)
mapHas(m, vertex) == \E i \in 1..Len(m) : m[i].vertexStart = vertex

hasVertex(m, vertex) == IF IsStringVertex(vertex) THEN mapHas(m, vertex) ELSE FALSE

mapIndex(m, vertex) == CHOOSE i \in 1..Len(m) : m[i].vertexStart = vertex

mapGet(m, vertex) == m[mapIndex(m, vertex)]

mapSet(m, vertex, node) ==
    IF mapHas(m, vertex)
    THEN [m EXCEPT ![mapIndex(m, vertex)] = node]
    ELSE Append(m, node)

isRootVertex(m, vertex) == hasVertex(m, vertex) /\ mapGet(m, vertex).isRoot

isLeafVertex(m, vertex) ==
    /\ hasVertex(m, vertex)
    /\ ~mapGet(m, vertex).isRoot
    /\ Len(mapGet(m, vertex).vertexEnds) = 0

\* the same with count >= 1 in place of count > 1
isBranchVertexFromOne(m, vertex) ==
    /\ hasVertex(m, vertex)
    /\ ~mapGet(m, vertex).isRoot
    /\ Len(mapGet(m, vertex).vertexEnds) >= 1

isBranchVertex(m, vertex) ==
    /\ hasVertex(m, vertex)
    /\ ~mapGet(m, vertex).isRoot
    /\ Len(mapGet(m, vertex).vertexEnds) > 1

\* the same with count >= 1 in place of count === 1
isFullyConnectedAnyRoot(m) ==
    /\ Len(m) > 0
    /\ Cardinality({i \in 1..Len(m) : m[i].isRoot}) >= 1

isFullyConnected(m) ==
    /\ Len(m) > 0
    /\ Cardinality({i \in 1..Len(m) : m[i].isRoot}) = 1

hasEdge(m, vertexStart, vertexEnd) ==
    /\ IsStringVertex(vertexStart) /\ IsStringVertex(vertexEnd)
    /\ hasVertex(m, vertexStart)
    /\ hasVertex(m, vertexEnd)
    /\ Includes(mapGet(m, vertexStart).vertexEnds, vertexEnd)

-----------------------------------------------------------------------------
(* DTG: the mutators, as functions from a map to the map they leave.       *)

NewNode(vertex) == [vertexStart |-> vertex, isRoot |-> TRUE, vertexEnds |-> <<>>]

RECURSIVE SetNewNodes(_, _)
SetNewNodes(m, vertices) ==
    IF Len(vertices) = 0 THEN m
    ELSE SetNewNodes(mapSet(m, Head(vertices), NewNode(Head(vertices))), Tail(vertices))

\* the same without the filter on hasVertex
addVerticesUnfiltered(m, vertices) ==
    IF /\ IsVertexArray(vertices)
       /\ Len(vertices) > 0
       /\ \A i \in 1..Len(vertices) : IsStringVertex(vertices[i])
    THEN SetNewNodes(m, vertices)
    ELSE m

\* The filter runs over the whole list before the first node is set, so a
\* name that occurs twice in the list passes it twice.
addVertices(m, vertices) ==
    IF /\ IsVertexArray(vertices)
       /\ Len(vertices) > 0
       /\ \A i \in 1..Len(vertices) : IsStringVertex(vertices[i])
    THEN SetNewNodes(m, SelectSeq(vertices, LAMBDA vertex : ~hasVertex(m, vertex)))
    ELSE m

\* the same with the root mark of the starting node cleared as well
createEdgeBothUnrooted(m, vertexStart, vertexEnd) ==
    IF ~(IsStringVertex(vertexStart) /\ IsStringVertex(vertexEnd)) THEN m
    ELSE IF vertexStart = vertexEnd THEN m
    ELSE IF ~hasVertex(m, vertexStart) THEN m
    ELSE IF ~hasVertex(m, vertexEnd) THEN m
    ELSE IF hasEdge(m, vertexStart, vertexEnd) THEN m
    ELSE [m EXCEPT ![mapIndex(m, vertexStart)].vertexEnds = Append(@, vertexEnd),
                   ![mapIndex(m, vertexStart)].isRoot = FALSE,
                   ![mapIndex(m, vertexEnd)].isRoot = FALSE]

\* the same without the check vertexStart === vertexEnd
createEdgeSelfLoop(m, vertexStart, vertexEnd) ==
    IF ~(IsStringVertex(vertexStart) /\ IsStringVertex(vertexEnd)) THEN m
    ELSE IF ~hasVertex(m, vertexStart) THEN m
    ELSE IF ~hasVertex(m, vertexEnd) THEN m
    ELSE IF hasEdge(m, vertexStart, vertexEnd) THEN m
    ELSE [m EXCEPT ![mapIndex(m, vertexStart)].vertexEnds = Append(@, vertexEnd),
                   ![mapIndex(m, vertexEnd)].isRoot = FALSE]

\* the same with the root mark of the ending node left as it is
createEdgeRootKept(m, vertexStart, vertexEnd) ==
    IF ~(IsStringVertex(vertexStart) /\ IsStringVertex(vertexEnd)) THEN m
    ELSE IF vertexStart = vertexEnd THEN m
    ELSE IF ~hasVertex(m, vertexStart) THEN m
    ELSE IF ~hasVertex(m, vertexEnd) THEN m
    ELSE IF hasEdge(m, vertexStart, vertexEnd) THEN m
    ELSE [m EXCEPT ![mapIndex(m, vertexStart)].vertexEnds = Append(@, vertexEnd)]

\* the same with unshift in place of push
createEdgeUnshift(m, vertexStart, vertexEnd) ==
    IF ~(IsStringVertex(vertexStart) /\ IsStringVertex(vertexEnd)) THEN m
    ELSE IF vertexStart = vertexEnd THEN m
    ELSE IF ~hasVertex(m, vertexStart) THEN m
    ELSE IF ~hasVertex(m, vertexEnd) THEN m
    ELSE IF hasEdge(m, vertexStart, vertexEnd) THEN m
    ELSE [m EXCEPT ![mapIndex(m, vertexStart)].vertexEnds = <<vertexEnd>> \o @,
                   ![mapIndex(m, vertexEnd)].isRoot = FALSE]

createEdge(m, vertexStart, vertexEnd) ==
    IF ~(IsStringVertex(vertexStart) /\ IsStringVertex(vertexEnd)) THEN m
    ELSE IF vertexStart = vertexEnd THEN m
    ELSE IF ~hasVertex(m, vertexStart) THEN m
    ELSE IF ~hasVertex(m, vertexEnd) THEN m
    ELSE IF hasEdge(m, vertexStart, vertexEnd) THEN m
    ELSE [m EXCEPT ![mapIndex(m, vertexStart)].vertexEnds = Append(@, vertexEnd),
                   ![mapIndex(m, vertexEnd)].isRoot = FALSE]

\* the same, given up at the first pair that createEdge rejects
RECURSIVE DaisyFromUntilRejected(_, _, _)
DaisyFromUntilRejected(m, vertices, index) ==
    IF index > Len(vertices) THEN m
    ELSE IF createEdge(m, vertices[index - 1], vertices[index]) = m THEN m
    ELSE DaisyFromUntilRejected(createEdge(m, vertices[index - 1], vertices[index]),
                                vertices, index + 1)

RECURSIVE DaisyFrom(_, _, _)
DaisyFrom(m, vertices, index) ==
    IF index > Len(vertices) THEN m
    ELSE DaisyFrom(createEdge(m, vertices[index - 1], vertices[index]), vertices, index + 1)

\* the same without the test that every element is a string
createDaisyChainEdgesUnchecked(m, vertices) ==
    IF IsVertexArray(vertices) /\ Len(vertices) > 0
    THEN DaisyFrom(m, vertices, 2)
    ELSE m

createDaisyChainEdges(m, vertices) ==
    IF /\ IsVertexArray(vertices)
       /\ Len(vertices) > 0
       /\ \A i \in 1..Len(vertices) : IsStringVertex(vertices[i])
    THEN DaisyFrom(m, vertices, 2)
    ELSE m

RECURSIVE EdgeCountUpTo(_, _)
EdgeCountUpTo(m, i) == IF i = 0 THEN 0 ELSE Len(m[i].vertexEnds) + EdgeCountUpTo(m, i - 1)

EdgeCount(m) == EdgeCountUpTo(m, Len(m))

-----------------------------------------------------------------------------
(* DTG: path enumeration.  A call either returns or throws; Threw is the   *)
(* outcome of a call that ended in a TypeError.                            *)

Returned(paths) == [threw |-> FALSE, paths |-> paths]

Threw == [threw |-> TRUE, paths |-> <<>>]

\* The outcomes of the calls of one forEach, in order: the first throw ends it.
RECURSIVE JoinOutcomes(_)
JoinOutcomes(rs) ==
    IF Len(rs) = 0 THEN Returned(<<>>)
    ELSE IF Head(rs).threw THEN Threw
    ELSE LET rest == JoinOutcomes(Tail(rs))
         IN IF rest.threw THEN Threw ELSE Returned(Head(rs).paths \o rest.paths)

\* The content of the array visitedVertices of a branch vertex after the
\* first n children were handled: every child already in it was pushed.
PushedLoopEnds(visitedVertices, vertexEnds, n) ==
    visitedVertices \o SelectSeq(SubSeq(vertexEnds, 1, n),
                                 LAMBDA vertexEnd : Includes(visitedVertices, vertexEnd))

RECURSIVE traverse(_, _, _)
traverse(m, vertexStart, visitedVertices) ==
    LET startingNode == mapGet(m, vertexStart)
        vertexEnds == startingNode.vertexEnds
    IN IF isLeafVertex(m, vertexStart) THEN Returned(<<visitedVertices>>)
       ELSE IF isBranchVertex(m, vertexStart) THEN
            \* a child already visited is pushed on the shared array, which is
            \* collected as it is: every such entry of paths is this one array,
            \* read when all children were handled; the other children get a
            \* copy of the array as it is when their turn comes
            JoinOutcomes([i \in 1..Len(vertexEnds) |->
                IF Includes(visitedVertices, vertexEnds[i])
                THEN Returned(<<PushedLoopEnds(visitedVertices, vertexEnds, Len(vertexEnds))>>)
                ELSE traverse(m, vertexEnds[i],
                              Append(PushedLoopEnds(visitedVertices, vertexEnds, i - 1),
                                     vertexEnds[i]))])
       ELSE IF Len(vertexEnds) = 0
            \* vertexEnds[0] is undefined, _map.get(undefined) is undefined, and
            \* the next call reads undefined.vertexStart: TypeError
            THEN Threw
       ELSE IF Includes(visitedVertices, vertexEnds[1])
            THEN Returned(<<Append(visitedVertices, vertexEnds[1])>>)
       ELSE traverse(m, vertexEnds[1], Append(visitedVertices, vertexEnds[1]))

\* the comparator with its operands exchanged
comparePathsSwapped(pathA, pathB) == IF Len(pathB) < Len(pathA) THEN -1 ELSE 1

comparePaths(pathA, pathB) == IF Len(pathA) < Len(pathB) THEN -1 ELSE 1

\* Array.prototype.sort: an element goes before the first element of the
\* sorted part that the comparator puts after it (a negative result), and
\* after all others.  The comparator never answers 0, so paths of equal
\* length keep the order they were collected in, the order the test of
\* getPaths expects.
InsertPath(sorted, path) ==
    LET before == {i \in 1..Len(sorted) : comparePaths(path, sorted[i]) < 0}
        at == IF before = {} THEN Len(sorted) + 1
              ELSE CHOOSE i \in before : \A j \in before : i <= j
    IN SubSeq(sorted, 1, at - 1) \o <<path>> \o SubSeq(sorted, at, Len(sorted))

RECURSIVE sortPathsFrom(_, _, _)
sortPathsFrom(paths, sorted, i) ==
    IF i > Len(paths) THEN sorted
    ELSE sortPathsFrom(paths, InsertPath(sorted, paths[i]), i + 1)

sortPaths(paths) == sortPathsFrom(paths, <<>>, 1)

getPaths(m) ==
    IF Len(m) > 0
    THEN LET roots == SelectSeq(m, LAMBDA node : node.isRoot)
             collected == JoinOutcomes([i \in 1..Len(roots) |->
                              traverse(m, roots[i].vertexStart, <<roots[i].vertexStart>>)])
         IN IF collected.threw THEN Threw ELSE Returned(sortPaths(collected.paths))
    ELSE Returned(<<>>)

\* count is the number returned; the call throws when getPaths does
getLoopCount(m) ==
    LET got == getPaths(m)
    IN [threw |-> got.threw,
        count |-> Cardinality({i \in 1..Len(got.paths) : HasDuplicates(got.paths[i])})]

-----------------------------------------------------------------------------
(* Extractor: JavaScript values and built-ins.                             *)
(* An element of the argument is a string (isString, with its characters)  *)
(* or a value of another type.                                             *)

Str(chars) == [isString |-> TRUE, chars |-> chars]

NonString == [isString |-> FALSE, chars |-> <<>>]

ArrayOf(elems) == [isArray |-> TRUE, elems |-> elems]

\* the same with .some in place of .every
IsStringListSome(value) ==
    /\ value.isArray
    /\ Len(value.elems) > 0
    /\ \E i \in 1..Len(value.elems) : value.elems[i].isString

\* Array.isArray(words) && words.length && words.every(typeof word === 'string')
IsStringList(value) ==
    /\ value.isArray
    /\ Len(value.elems) > 0
    /\ \A i \in 1..Len(value.elems) : value.elems[i].isString

StringsOf(value) == [i \in 1..Len(value.elems) |-> value.elems[i].chars]

\* UTF-16 code unit of a character: the order of Array.prototype.sort()
CharCode(char) ==
    CASE char = "0" -> 48 [] char = "1" -> 49 [] char = "2" -> 50
      [] char = "a" -> 97 [] char = "b" -> 98 [] char = "c" -> 99 [] char = "d" -> 100
      [] OTHER -> 0

\* [ ...new Set(array) ]: the first occurrence of every element, in order
RECURSIVE Distinct(_)
Distinct(s) ==
    IF Len(s) = 0 THEN <<>>
    ELSE LET front == Distinct(SubSeq(s, 1, Len(s) - 1))
         IN IF Includes(front, s[Len(s)]) THEN front ELSE Append(front, s[Len(s)])

\* array.sort() with no comparator, on one-character strings
RECURSIVE SortChars(_)
SortChars(s) ==
    IF Len(s) = 0 THEN <<>>
    ELSE LET front == SortChars(SubSeq(s, 1, Len(s) - 1))
             x == s[Len(s)]
             before == SelectSeq(front, LAMBDA y : CharCode(y) <= CharCode(x))
             after == SelectSeq(front, LAMBDA y : CharCode(y) > CharCode(x))
         IN before \o <<x>> \o after

charAt0(word) == IF Len(word) = 0 THEN "" ELSE word[1]

substring1(word) == IF Len(word) = 0 THEN <<>> ELSE Tail(word)

\* A property name that is an array index ("0", "1", ...) is listed by
\* Object.keys and Object.values before every other name, in ascending
\* numeric order; the other names follow in the order they were created.
IsArrayIndex(key) == key \in {"0", "1", "2", "3", "4", "5", "6", "7", "8", "9"}

ObjectKeys(created) ==
    SortChars(SelectSeq(created, IsArrayIndex))
        \o SelectSeq(created, LAMBDA key : ~IsArrayIndex(key))

-----------------------------------------------------------------------------
(* Extractor: the three functions on a list of strings.                    *)

\* the same without the trailing .sort()
uniqueCharsUnsorted(strings) == Distinct(Concat(strings))

uniqueCharsOf(strings) == SortChars(Distinct(Concat(strings)))

\* The keys of orderedCharMap in the order the reduce creates them, and the
\* words filed under one key.
CreatedKeys(strings) == Distinct([i \in 1..Len(strings) |-> charAt0(strings[i])])

WordsOfKey(strings, key) == SelectSeq(strings, LAMBDA word : charAt0(word) = key)

\* Two or more empty strings are filed under the key "" and are their own
\* trimmed words: the recursion never ends and the call throws a RangeError
\* (call stack exceeded).
RecursesForever(strings) == Cardinality({i \in 1..Len(strings) : Len(strings[i]) = 0}) > 1

RECURSIVE orderedCharsOf(_)
orderedCharsOf(strings) ==
    IF RecursesForever(strings) THEN Threw
    ELSE LET keys == ObjectKeys(CreatedKeys(strings))
             groups == SelectSeq([i \in 1..Len(keys) |-> WordsOfKey(strings, keys[i])],
                                 LAMBDA _words : Len(_words) > 1)
             nested == JoinOutcomes([i \in 1..Len(groups) |->
                           orderedCharsOf([j \in 1..Len(groups[i]) |-> substring1(groups[i][j])])])
         IN IF nested.threw THEN Threw
            ELSE Returned(SelectSeq(<<keys>> \o nested.paths,
                                    LAMBDA orderedChar : Len(orderedChar) > 1))

RECURSIVE DaisyAll(_, _)
DaisyAll(m, orderedChars) ==
    IF Len(orderedChars) = 0 THEN m
    ELSE DaisyAll(createDaisyChainEdges(m, Head(orderedChars)), Tail(orderedChars))

\* the DTG that extractAlphabetChars builds from a list of strings
BuiltMap(uniqueChars, orderedChars) == DaisyAll(addVertices(EmptyMap, uniqueChars), orderedChars)

-----------------------------------------------------------------------------
(* The outcome of a call, as the caller sees it.                           *)

Outcome(op, outcome, type, chars, paths, num, diags) ==
    [op |-> op, outcome |-> outcome, type |-> type,
     chars |-> chars, paths |-> paths, num |-> num, diags |-> diags]

NoRet == Outcome("none", "none", "none", <<>>, <<>>, 0, {})

ThrowOf(op) == Outcome(op, "throw", "none", <<>>, <<>>, 0, {})

NotAnArray == [isArray |-> FALSE, elems |-> <<>>]

\* The console.warn lines of the extractor functions.
WarnInvalid == "Input words are not strings or invalid."
WarnNotSorted == "Input list of words are not alphabetically sorted."
WarnInsufficient == "Input list of words do not have enough information."

getUniqueCharSet(value) ==
    IF IsStringList(value)
    THEN Outcome("getUniqueCharSet", "return", "array",
                 uniqueCharsOf(StringsOf(value)), <<>>, 0, {})
    ELSE Outcome("getUniqueCharSet", "return", "array", <<>>, <<>>, 0, {WarnInvalid})

getOrderedCharSet(value) ==
    IF IsStringList(value)
    THEN LET got == orderedCharsOf(StringsOf(value))
         IN IF got.threw THEN ThrowOf("getOrderedCharSet")
            ELSE Outcome("getOrderedCharSet", "return", "array", <<>>, got.paths, 0, {})
    ELSE Outcome("getOrderedCharSet", "return", "array", <<>>, <<>>, 0, {WarnInvalid})

\* the same with the warning never written
loopWarningNever(loopCount) == {}

\* if (dtg.getLoopCount() !== 0) console.warn(...)
loopWarning(loopCount) == IF loopCount # 0 THEN {WarnNotSorted} ELSE {}

\* the same with the warning never written
insufficientWarningNever(insufficient) == {}

\* if (!dtg.isFullyConnected() || ...) console.warn(...)
insufficientWarning(insufficient) == IF insufficient THEN {WarnInsufficient} ELSE {}

\* The call's outcome and the DTG it leaves behind.
extractAlphabetChars(value) ==
    IF IsStringList(value)
    THEN LET uniqueChars == uniqueCharsOf(StringsOf(value))
             orderedChars == orderedCharsOf(StringsOf(value))
             m == BuiltMap(uniqueChars, orderedChars.paths)
             paths == getPaths(m)
             \* paths.pop(): undefined on an empty array
             popped == Len(paths.paths) > 0
             alphabetChars == IF popped THEN paths.paths[Len(paths.paths)] ELSE <<>>
             loopCount == getLoopCount(m)
             \* [ ...undefined ] is not evaluated: with no path there is no root
             \* and !isFullyConnected() decides the ||
             insufficient == \/ ~isFullyConnected(m)
                             \/ uniqueChars # SortChars(alphabetChars)
             diags == loopWarning(loopCount.count)
                          \cup insufficientWarning(insufficient)
         IN IF orderedChars.threw
            THEN [ret |-> ThrowOf("extractAlphabetChars"), dtg |-> NewDTG]
            ELSE IF paths.threw
            THEN [ret |-> ThrowOf("extractAlphabetChars"),
                  dtg |-> [constructed |-> TRUE, map |-> m]]
            ELSE [ret |-> Outcome("extractAlphabetChars", "return",
                                  IF popped THEN "array" ELSE "undefined",
                                  alphabetChars, <<>>, 0, diags),
                  dtg |-> [constructed |-> TRUE, map |-> m]]
    ELSE [ret |-> Outcome("extractAlphabetChars", "return", "array", <<>>, <<>>, 0,
                          {WarnInvalid}),
          dtg |-> NoDTG]

-----------------------------------------------------------------------------
(* The DTG as a state machine: one action per method.                      *)

InitDTG ==
    /\ dtg = NewDTG
    /\ words = NotAnArray
    /\ ret = NoRet

AddVertices(vertices) ==
    /\ dtg.constructed
    /\ dtg' = [dtg EXCEPT !.map = addVertices(dtg.map, vertices)]
    /\ ret' = NoRet
    /\ UNCHANGED words

CreateEdgeWithin(bound, vertexStart, vertexEnd) ==
    /\ dtg.constructed
    /\ EdgeCount(dtg.map) < bound
    /\ dtg' = [dtg EXCEPT !.map = createEdge(dtg.map, vertexStart, vertexEnd)]
    /\ ret' = NoRet
    /\ UNCHANGED words

CreateEdge(vertexStart, vertexEnd) == CreateEdgeWithin(MaxEdges, vertexStart, vertexEnd)

CreateDaisyChainEdges(vertices) ==
    /\ dtg.constructed
    /\ EdgeCount(dtg.map) + Len(vertices) <= MaxEdges + 1
    /\ dtg' = [dtg EXCEPT !.map = createDaisyChainEdges(dtg.map, vertices)]
    /\ ret' = NoRet
    /\ UNCHANGED words

\* the same with vertexEnds.shift() in place of vertexEnds[0]: the
\* traversal takes the first edge off every node it follows
GetPathsShifting ==
    /\ dtg.constructed
    /\ LET got == getPaths(dtg.map)
       IN ret' = IF got.threw THEN ThrowOf("getPaths")
                 ELSE Outcome("getPaths", "return", "array", <<>>, got.paths, 0, {})
    /\ dtg' = [dtg EXCEPT !.map =
                  [i \in DOMAIN dtg.map |->
                      [dtg.map[i] EXCEPT !.vertexEnds = IF @ = <<>> THEN @ ELSE Tail(@)]]]
    /\ UNCHANGED words

GetPaths ==
    /\ dtg.constructed
    /\ LET got == getPaths(dtg.map)
       IN ret' = IF got.threw THEN ThrowOf("getPaths")
                 ELSE Outcome("getPaths", "return", "array", <<>>, got.paths, 0, {})
    /\ UNCHANGED <<dtg, words>>

GetLoopCount ==
    /\ dtg.constructed
    /\ LET got == getLoopCount(dtg.map)
       IN ret' = IF got.threw THEN ThrowOf("getLoopCount")
                 ELSE Outcome("getLoopCount", "return", "number", <<>>, <<>>, got.count, {})
    /\ UNCHANGED <<dtg, words>>

\* the calls that build the graph
NextGraph ==
    \/ \E vertices \in VertexLists(MaxAdd) : AddVertices(vertices)
    \/ \E vertexStart, vertexEnd \in VertexArgs : CreateEdge(vertexStart, vertexEnd)
    \/ \E vertices \in VertexLists(MaxChain) : CreateDaisyChainEdges(vertices)

\* The graphs that calls of the mutators build, with no call of a method
\* that returns a value.
SpecGraph == InitDTG /\ [][NextGraph]_vars

Next ==
    \/ NextGraph
    \/ GetPaths
    \/ GetLoopCount

Spec == InitDTG /\ [][Next]_vars

\* The DTG built as the tests build it: the vertices first, in one call,
\* then the edges one by one; more edges than under Spec, and the vertices
\* in one order (the names of an order of the map are interchangeable).
AddVerticesFirst(vertices) ==
    /\ dtg.map = EmptyMap
    /\ AddVertices(vertices)

NextEdges ==
    \/ \E k \in 1..Len(NameOrder) : AddVerticesFirst(SubSeq(NameOrder, 1, k))
    \/ \E vertexStart, vertexEnd \in VertexNames :
           CreateEdgeWithin(MaxPathEdges, vertexStart, vertexEnd)
    \/ GetPaths
    \/ GetLoopCount

SpecEdges == InitDTG /\ [][NextEdges]_vars

\* The result of a query that returns a boolean: num is 1 for true, 0 for
\* false.
BoolRet(op, value) ==
    Outcome(op, "return", "boolean", <<>>, <<>>, IF value THEN 1 ELSE 0, {})

IsFullyConnected ==
    /\ dtg.constructed
    /\ ret' = BoolRet("isFullyConnected", isFullyConnected(dtg.map))
    /\ UNCHANGED <<dtg, words>>

HasVertex(vertex) ==
    /\ dtg.constructed
    /\ ret' = BoolRet("hasVertex", hasVertex(dtg.map, vertex))
    /\ UNCHANGED <<dtg, words>>

HasEdge(vertexStart, vertexEnd) ==
    /\ dtg.constructed
    /\ ret' = BoolRet("hasEdge", hasEdge(dtg.map, vertexStart, vertexEnd))
    /\ UNCHANGED <<dtg, words>>

IsRootVertex(vertex) ==
    /\ dtg.constructed
    /\ ret' = BoolRet("isRootVertex", isRootVertex(dtg.map, vertex))
    /\ UNCHANGED <<dtg, words>>

IsLeafVertex(vertex) ==
    /\ dtg.constructed
    /\ ret' = BoolRet("isLeafVertex", isLeafVertex(dtg.map, vertex))
    /\ UNCHANGED <<dtg, words>>

IsBranchVertex(vertex) ==
    /\ dtg.constructed
    /\ ret' = BoolRet("isBranchVertex", isBranchVertex(dtg.map, vertex))
    /\ UNCHANGED <<dtg, words>>

\* The DTG built as under SpecEdges, with every query of the DTG called on
\* it between the calls that build it.
NextQueries ==
    \/ \E k \in 1..Len(NameOrder) : AddVerticesFirst(SubSeq(NameOrder, 1, k))
    \/ \E vertexStart, vertexEnd \in VertexNames :
           CreateEdgeWithin(MaxQueryEdges, vertexStart, vertexEnd)
    \/ GetPaths
    \/ GetLoopCount
    \/ IsFullyConnected
    \/ \E vertex \in VertexArgs : HasVertex(vertex)
    \/ \E vertexStart, vertexEnd \in VertexArgs : HasEdge(vertexStart, vertexEnd)
    \/ \E vertex \in VertexArgs : IsRootVertex(vertex)
    \/ \E vertex \in VertexArgs : IsLeafVertex(vertex)
    \/ \E vertex \in VertexArgs : IsBranchVertex(vertex)

SpecQueries == InitDTG /\ [][NextQueries]_vars

-----------------------------------------------------------------------------
(* The extractor functions, called on one argument.                        *)

\* An argument is drawn by its shape, then by its characters.  A shape gives
\* for every element the length of the string, or -1 for a value that is no
\* string; the strings of one argument hold at most MaxChars characters.
RECURSIVE CharsIn(_)
CharsIn(shape) ==
    IF Len(shape) = 0 THEN 0
    ELSE (IF Head(shape) < 0 THEN 0 ELSE Head(shape)) + CharsIn(Tail(shape))

Shapes == {shape \in SeqsUpTo(-1..MaxChars, MaxWords) : CharsIn(shape) <= MaxChars}

ElemsOf(shape, flat) ==
    [i \in 1..Len(shape) |->
        IF shape[i] < 0 THEN NonString
        ELSE Str(SubSeq(flat, CharsIn(SubSeq(shape, 1, i - 1)) + 1,
                        CharsIn(SubSeq(shape, 1, i))))]

InitWords ==
    /\ dtg = NoDTG
    /\ \/ words = NotAnArray
       \/ \E shape \in Shapes : \E flat \in [1..CharsIn(shape) -> Chars] :
              words = ArrayOf(ElemsOf(shape, flat))
    /\ ret = NoRet

GetUniqueCharSet ==
    /\ ret' = getUniqueCharSet(words)
    /\ UNCHANGED <<dtg, words>>

GetOrderedCharSet ==
    /\ ret' = getOrderedCharSet(words)
    /\ UNCHANGED <<dtg, words>>

ExtractAlphabetChars ==
    /\ LET call == extractAlphabetChars(words)
       IN /\ ret' = call.ret
          /\ dtg' = call.dtg
    /\ UNCHANGED words

NextWords ==
    \/ GetUniqueCharSet
    \/ GetOrderedCharSet
    \/ ExtractAlphabetChars

SpecWords == InitWords /\ [][NextWords]_vars

\* The same functions on lists of words of letters: longer lists of shorter
\* words over a larger alphabet.
LetterWords == SeqsUpTo(Letters, MaxLetterLen)

InitLetters ==
    /\ dtg = NoDTG
    /\ \E k \in 0..MaxLetterWords : \E ws \in [1..k -> LetterWords] :
           words = ArrayOf([i \in 1..k |-> Str(ws[i])])
    /\ ret = NoRet

SpecLetters == InitLetters /\ [][NextWords]_vars

\* The same functions on lists of non-empty words of letters, bounded by
\* the number of words and by the number of characters of all words together.
ListShapes ==
    {shape \in SeqsUpTo(1..MaxListChars, MaxListWords) : CharsIn(shape) <= MaxListChars}

InitLists ==
    /\ dtg = NoDTG
    /\ \E shape \in ListShapes : \E flat \in [1..CharsIn(shape) -> Letters] :
           words = ArrayOf(ElemsOf(shape, flat))
    /\ ret = NoRet

SpecLists == InitLists /\ [][NextWords]_vars

-----------------------------------------------------------------------------
(* What the claims speak of, stated without the operators of the model.    *)

\* a non-empty list of strings
NonEmptyStrings(value) ==
    /\ value.isArray
    /\ value.elems # <<>>
    /\ \A i \in DOMAIN value.elems : value.elems[i].isString

\* not a list, an empty list, or a list with an element that is no string
InvalidArgument(value) ==
    \/ ~value.isArray
    \/ value.elems = <<>>
    \/ \E i \in DOMAIN value.elems : ~value.elems[i].isString

\* the characters that occur in the strings of a list
CharsOccurring(value) ==
    UNION {Range(value.elems[i].chars) : i \in DOMAIN value.elems}

Ascending(chars) ==
    \A i, j \in DOMAIN chars : i < j => CharCode(chars[i]) < CharCode(chars[j])

ExtractorOps == {"getUniqueCharSet", "getOrderedCharSet", "extractAlphabetChars"}

-----------------------------------------------------------------------------
(* Claims about the extractor functions on arbitrary arguments (SpecWords) *)

\* C2 (as claimed): extractAlphabetChars never ends abortively: on every
\* non-empty list of strings, however insufficient or ambiguous, the call
\* returns a value.
C2_NeverThrows ==
    (ret.op = "extractAlphabetChars" /\ NonEmptyStrings(words))
        => ret.outcome = "return"

\* C4 (as claimed): on every non-empty list of strings the value that
\* extractAlphabetChars returns is a sequence of symbols, whatever was
\* diagnosed and also when the built graph has no root vertex.
C4_ReturnsSequence ==
    (ret.op = "extractAlphabetChars" /\ NonEmptyStrings(words) /\ ret.outcome = "return")
        => ret.type = "array"

\* C5: on an argument that is not a list, is an empty list or holds an
\* element that is no string, each of the three functions returns the empty
\* sequence with the warning, and extractAlphabetChars constructs no graph.
C5_InvalidInputEmpty ==
    InvalidArgument(words) =>
        /\ ~dtg.constructed
        /\ ret.op \in ExtractorOps =>
               /\ ret.outcome = "return"
               /\ ret.type = "array"
               /\ ret.chars = <<>>
               /\ ret.paths = <<>>
               /\ WarnInvalid \in ret.diags

\* C5 happens: extractAlphabetChars was called on a list that holds a string
\* of two characters and a value that is no string.
C5_Witness ==
    /\ ret.op = "extractAlphabetChars"
    /\ words.isArray
    /\ \E i, j \in DOMAIN words.elems :
           /\ ~words.elems[i].isString
           /\ words.elems[j].isString
           /\ Len(words.elems[j].chars) = 2

\* C7: on a non-empty list of strings getUniqueCharSet returns the characters
\* that occur in the words, each once and no other element, in ascending
\* order (so the empty sequence for a list of empty strings).
C7_UniqueSorted ==
    (ret.op = "getUniqueCharSet" /\ NonEmptyStrings(words)) =>
        /\ ret.outcome = "return"
        /\ ret.type = "array"
        /\ Range(ret.chars) = CharsOccurring(words)
        /\ Ascending(ret.chars)

\* C7 happens: getUniqueCharSet returned three characters for a list whose
\* first word begins with the last of them and in which a character recurs.
C7_Witness ==
    /\ ret.op = "getUniqueCharSet"
    /\ NonEmptyStrings(words)
    /\ Len(ret.chars) = 3
    /\ Len(words.elems[1].chars) > 0
    /\ words.elems[1].chars[1] = ret.chars[3]
    /\ \E i \in DOMAIN words.elems : HasDuplicates(words.elems[i].chars)

\* The reference of C6.  A word with no symbol left is filed under "", as
\* the code files it, and a group of such words is not taken further.
FirstSymbol(word) == IF word = <<>> THEN "" ELSE Head(word)

FirstAppearance(symbols) ==
    SelectSeq([i \in DOMAIN symbols |-> <<i, symbols[i]>>],
              LAMBDA e : \A j \in 1..(e[1] - 1) : symbols[j] # e[2])

RECURSIVE RefChains(_)
RefChains(strings) ==
    LET firsts == [i \in DOMAIN FirstAppearance([k \in DOMAIN strings |-> FirstSymbol(strings[k])]) |->
                      FirstAppearance([k \in DOMAIN strings |-> FirstSymbol(strings[k])])[i][2]]
        group(x) == SelectSeq(strings, LAMBDA word : FirstSymbol(word) = x)
        \* words with no symbol left have no first symbol to remove
        large == SelectSeq(firsts, LAMBDA x : x # "" /\ Len(group(x)) > 1)
        nested == Concat([i \in DOMAIN large |->
                      RefChains([j \in DOMAIN group(large[i]) |-> Tail(group(large[i])[j])])])
    IN SelectSeq(<<firsts>> \o nested, LAMBDA chain : Len(chain) >= 2)

\* C6 (as claimed): on a non-empty list of strings getOrderedCharSet equals
\* the reference: the distinct first symbols of the words in order of first
\* appearance (digits included), then, for each first-symbol group of more
\* than one word in that order, the reference on the group's words without
\* their first symbol; chains shorter than 2 dropped.
C6_OrderedEqualsReference ==
    (ret.op = "getOrderedCharSet" /\ NonEmptyStrings(words) /\ ret.outcome = "return")
        => ret.paths = RefChains([i \in DOMAIN words.elems |-> words.elems[i].chars])

-----------------------------------------------------------------------------
(* Claims about sorted word lists (SpecLetters).                           *)

\* the total orders of a set of symbols, each as the sequence of the symbols
Orders(S) == {ord \in [1..Cardinality(S) -> S] : Range(ord) = S}

\* position of the first occurrence of x in a sequence, 0 when it is absent
Pos(seq, x) ==
    IF \E i \in DOMAIN seq : seq[i] = x
    THEN CHOOSE i \in DOMAIN seq : seq[i] = x /\ \A j \in 1..(i - 1) : seq[j] # x
    ELSE 0

Min(a, b) == IF a < b THEN a ELSE b

\* first position at which two words differ, 0 when one is a prefix of the other
FirstDiff(u, v) ==
    LET diff == {k \in 1..Min(Len(u), Len(v)) : u[k] # v[k]}
    IN IF diff = {} THEN 0 ELSE CHOOSE k \in diff : \A l \in diff : k <= l

\* u is not after v in the lexicographic order of ord; a prefix sorts first
LexLeq(u, v, ord) ==
    IF FirstDiff(u, v) = 0 THEN Len(u) <= Len(v)
    ELSE Pos(ord, u[FirstDiff(u, v)]) < Pos(ord, v[FirstDiff(u, v)])

SortedUnder(strings, ord) ==
    \A i \in 1..(Len(strings) - 1) : LexLeq(strings[i], strings[i + 1], ord)

\* the chains link the symbols of ord into the one path ord[1] -> ord[2] -> ...
ChainsLink(chains, ord) ==
    \A i \in 1..(Len(ord) - 1) :
        \E c \in DOMAIN chains : \E j \in 1..(Len(chains[c]) - 1) :
            chains[c][j] = ord[i] /\ chains[c][j + 1] = ord[i + 1]

WordsOf(value) == [i \in DOMAIN value.elems |-> value.elems[i].chars]

\* C1 (as claimed): for a word list sorted under a total order of its symbols
\* whose derived chains link all symbols into one path from a single root,
\* extractAlphabetChars returns exactly the symbols in that order, whatever
\* the number of outgoing edges of the first symbol.
C1_ExtractsTheOrder ==
    (ret.op = "extractAlphabetChars" /\ NonEmptyStrings(words)) =>
        \A ord \in Orders(CharsOccurring(words)) :
            ( /\ Len(ord) >= 2
              /\ SortedUnder(WordsOf(words), ord)
              /\ ~orderedCharsOf(WordsOf(words)).threw
              /\ ChainsLink(orderedCharsOf(WordsOf(words)).paths, ord) )
            => (ret.outcome = "return" /\ ret.type = "array" /\ ret.chars = ord)

\* every adjacent pair of words yields a precedence of their first symbols
FirstSymbolsDiffer(strings) ==
    \A i \in 1..(Len(strings) - 1) :
        /\ strings[i] # <<>>
        /\ strings[i + 1] # <<>>
        /\ strings[i][1] # strings[i + 1][1]

\* C3 (as claimed): round trip.  For a sorted word list in which every
\* adjacent pair of words yields a precedence of their first symbols, sorting
\* the words by the order that extractAlphabetChars returns reproduces the
\* list: the call returns an order, and it puts the first symbol of every
\* word before the first symbol of the next word.
C3_RoundTrip ==
    ( /\ ret.op = "extractAlphabetChars"
      /\ NonEmptyStrings(words)
      /\ Len(words.elems) >= 2
      /\ FirstSymbolsDiffer(WordsOf(words))
      /\ \E ord \in Orders(CharsOccurring(words)) : SortedUnder(WordsOf(words), ord) )
    => /\ ret.outcome = "return"
       /\ ret.type = "array"
       /\ \A i \in 1..(Len(words.elems) - 1) :
              /\ Pos(ret.chars, WordsOf(words)[i][1]) > 0
              /\ Pos(ret.chars, WordsOf(words)[i][1]) < Pos(ret.chars, WordsOf(words)[i + 1][1])

-----------------------------------------------------------------------------
(* Claims about the DTG (Spec).                                            *)

VerticesOf(m) == {m[i].vertexStart : i \in DOMAIN m}

Edge(m, a, b) == \E i \in DOMAIN m : m[i].vertexStart = a /\ \E j \in DOMAIN m[i].vertexEnds : m[i].vertexEnds[j] = b

\* the directed paths of the graph that visit no vertex twice
SimplePaths(m) ==
    {p \in SeqsUpTo(VerticesOf(m), Len(m)) :
        /\ Len(p) >= 1
        /\ ~HasDuplicates(p)
        /\ \A i \in 1..(Len(p) - 1) : Edge(m, p[i], p[i + 1])}

HasCycle(m) == \E p \in SimplePaths(m) : Edge(m, p[Len(p)], p[1])

\* the paths from a vertex no edge ends at to a vertex no edge starts from
RootLeafPaths(m) ==
    {p \in SimplePaths(m) :
        /\ \A v \in VerticesOf(m) : ~Edge(m, v, p[1])
        /\ \A v \in VerticesOf(m) : ~Edge(m, p[Len(p)], v)}

\* C8 (as claimed): on an acyclic graph getPaths() returns exactly the
\* directed paths from each root to each leaf reachable from it, each once:
\* the traversal forks at every vertex with more than one outgoing edge,
\* root or not.
C8_PathsExactlyRootToLeaf ==
    (ret.op = "getPaths" /\ ret.outcome = "return" /\ ~HasCycle(dtg.map)) =>
        /\ Range(ret.paths) = RootLeafPaths(dtg.map)
        /\ ~HasDuplicates(ret.paths)

\* C9: the sequence that getPaths() returns is sorted by non-decreasing path
\* length, and on the empty graph getPaths() returns the empty sequence.
C9_PathsSortedByLength ==
    ret.op = "getPaths" =>
        /\ ret.outcome = "return" =>
               \A i, j \in DOMAIN ret.paths : i < j => Len(ret.paths[i]) <= Len(ret.paths[j])
        /\ dtg.map = <<>> => (ret.outcome = "return" /\ ret.paths = <<>>)

\* C9 happens: getPaths() returned paths of different lengths, and the
\* longest, returned last, starts at the first vertex of the map, whose
\* path is collected first.
C9_Witness ==
    /\ ret.op = "getPaths"
    /\ ret.outcome = "return"
    /\ Len(ret.paths) >= 2
    /\ Len(ret.paths[1]) < Len(ret.paths[Len(ret.paths)])
    /\ ret.paths[Len(ret.paths)][1] = dtg.map[1].vertexStart
    /\ ret.paths[1][1] # dtg.map[1].vertexStart

\* C10 (as claimed): after calls that leave a directed cycle in the graph,
\* getLoopCount() is at least 1, wherever the cycle lies.
C10_CycleCounted ==
    (ret.op = "getLoopCount" /\ ret.outcome = "return" /\ HasCycle(dtg.map))
        => ret.num >= 1

\* a path in which some symbol occurs more than once
RepeatsSymbol(path) == Cardinality(Range(path)) < Len(path)

\* C11 (as claimed): getLoopCount() returns the number of entries of
\* getPaths() that contain a repeated symbol, and on every graph without a
\* directed cycle it returns 0.
C11_LoopCountCountsRepeats ==
    ret.op = "getLoopCount" =>
        /\ ret.outcome = "return" =>
               ret.num = Cardinality({i \in DOMAIN getPaths(dtg.map).paths :
                                         RepeatsSymbol(getPaths(dtg.map).paths[i])})
        /\ ~HasCycle(dtg.map) => (ret.outcome = "return" /\ ret.num = 0)

-----------------------------------------------------------------------------
(* Claims about the graphs that the mutators build (SpecGraph): what a     *)
(* method finds in, or leaves of, every graph that is reached, for every   *)
(* argument.                                                               *)

\* the vertices in the order of the map
NamesOf(m) == [i \in DOMAIN m |-> m[i].vertexStart]

\* the outgoing edges and the root mark of a vertex of the graph
EdgesOf(m, v) == m[CHOOSE i \in DOMAIN m : m[i].vertexStart = v].vertexEnds

RootMark(m, v) == m[CHOOSE i \in DOMAIN m : m[i].vertexStart = v].isRoot

\* createEdge(from, to) passes validation: distinct existing vertices, the
\* edge not yet present
EdgeAccepted(m, from, to) ==
    /\ from # to
    /\ from \in VerticesOf(m)
    /\ to \in VerticesOf(m)
    /\ ~Edge(m, from, to)

\* the vertices whose node is marked root
MarkedRoot(m) == {m[i].vertexStart : i \in {j \in DOMAIN m : m[j].isRoot}}

\* C12: after any sequence of calls isFullyConnected() is true if and only if
\* exactly one vertex of the graph is marked root: it is false on the empty
\* graph, with no root and with two or more roots.
C12_FullyConnectedIffOneRoot ==
    /\ isFullyConnected(dtg.map) <=> Cardinality(MarkedRoot(dtg.map)) = 1
    /\ dtg.map = <<>> => ~isFullyConnected(dtg.map)

\* C12 happens: two edges have left a graph of two roots, one of them
\* with no edge, and a third edge would leave one root, or none.
C12_Witness ==
    /\ Len(dtg.map) >= 3
    /\ Cardinality(MarkedRoot(dtg.map)) = 2
    /\ EdgeCount(dtg.map) = 2
    /\ \E v \in MarkedRoot(dtg.map) : EdgesOf(dtg.map, v) = <<>>

\* C13: a successful createEdge(from, to) appends to at the end of from's
\* outgoing edges and clears to's root mark, so that hasEdge(from, to) holds;
\* hasEdge(to, from), from's root mark, the vertices, and the edges and root
\* mark of every other vertex are as before.
C13_CreateEdgeEffect ==
    \A from, to \in VertexArgs :
        EdgeAccepted(dtg.map, from, to) =>
            LET left == createEdge(dtg.map, from, to)
            IN /\ EdgesOf(left, from) = Append(EdgesOf(dtg.map, from), to)
               /\ ~RootMark(left, to)
               /\ Edge(left, from, to)
               /\ Edge(left, to, from) <=> Edge(dtg.map, to, from)
               /\ RootMark(left, from) = RootMark(dtg.map, from)
               /\ NamesOf(left) = NamesOf(dtg.map)
               /\ \A v \in VerticesOf(dtg.map) :
                      /\ v # from => EdgesOf(left, v) = EdgesOf(dtg.map, v)
                      /\ v # to => RootMark(left, v) = RootMark(dtg.map, v)

\* C13 happens: a vertex has got two outgoing edges, the later one to a
\* vertex added before the earlier one's, and is still marked root, as is a
\* third vertex that no edge ends at.
C13_Witness ==
    \E i, j, k, l \in DOMAIN dtg.map :
        /\ j < k
        /\ dtg.map[i].vertexEnds = <<dtg.map[k].vertexStart, dtg.map[j].vertexStart>>
        /\ dtg.map[i].isRoot
        /\ ~dtg.map[j].isRoot /\ ~dtg.map[k].isRoot
        /\ l \notin {i, j, k} /\ dtg.map[l].isRoot

\* C14: a createEdge(from, to) that fails validation (a self-loop, a missing
\* start vertex, a missing end vertex, an edge that exists already, an argument
\* that is no string) leaves the graph exactly as it was.
C14_RejectedEdgeChangesNothing ==
    \A from, to \in VertexArgs :
        ~EdgeAccepted(dtg.map, from, to) =>
            /\ createEdge(dtg.map, from, to) = dtg.map
            /\ from = to => ~Edge(createEdge(dtg.map, from, to), from, to)

\* C14 happens: the graph holds an edge (a call can repeat it or close a
\* self-loop on its start) and lacks a vertex name, and no vertex has an edge
\* to itself.
C14_Witness ==
    /\ \E a, b \in VerticesOf(dtg.map) : Edge(dtg.map, a, b)
    /\ VerticesOf(dtg.map) # VertexNames
    /\ EdgeCount(dtg.map) < MaxEdges
    /\ \A x \in VerticesOf(dtg.map) : ~Edge(dtg.map, x, x)

\* a non-empty list of strings, as addVertices and createDaisyChainEdges
\* require it
ValidVertexList(vertices) ==
    /\ vertices # <<>>
    /\ \A i \in DOMAIN vertices : vertices[i] # NonStringVertex

\* C15: addVertices on a valid list adds one vertex, a root with no outgoing
\* edge, for every symbol of the list that the graph lacks, and leaves every
\* vertex already present as it is (outgoing edges and root mark); no symbol
\* gets a second vertex, also when the list names it twice.
C15_AddVerticesEffect ==
    \A vertices \in SeqsUpTo(VertexArgs, MaxAdd) :
        ValidVertexList(vertices) =>
            LET left == addVertices(dtg.map, vertices)
            IN /\ VerticesOf(left) = VerticesOf(dtg.map) \cup Range(vertices)
               /\ Len(left) = Cardinality(VerticesOf(left))
               /\ SubSeq(left, 1, Len(dtg.map)) = dtg.map
               /\ \A v \in Range(vertices) \ VerticesOf(dtg.map) :
                      RootMark(left, v) /\ EdgesOf(left, v) = <<>>

\* C15 happens: a vertex that has an outgoing edge and a vertex that has
\* lost its root mark are followed in the map by vertices of a later call.
C15_Witness ==
    /\ Len(dtg.map) > MaxAdd
    /\ \E i, j \in 1..MaxAdd : i # j /\ dtg.map[i].vertexEnds # <<>> /\ ~dtg.map[j].isRoot
    /\ dtg.map[Len(dtg.map)].isRoot
    /\ dtg.map[Len(dtg.map)].vertexEnds = <<>>

\* createEdge as C13 and C14 describe it
EdgeCreated(m, from, to) ==
    IF EdgeAccepted(m, from, to)
    THEN [i \in DOMAIN m |->
             [vertexStart |-> m[i].vertexStart,
              isRoot |-> m[i].isRoot /\ m[i].vertexStart # to,
              vertexEnds |-> IF m[i].vertexStart = from
                             THEN m[i].vertexEnds \o <<to>> ELSE m[i].vertexEnds]]
    ELSE m

\* createEdge on every consecutive pair of a list, left to right
RECURSIVE PairByPair(_, _)
PairByPair(m, vertices) ==
    IF Len(vertices) < 2 THEN m
    ELSE PairByPair(EdgeCreated(m, vertices[1], vertices[2]), Tail(vertices))

\* C16: createDaisyChainEdges on a list of strings leaves the graph that
\* createEdge on every consecutive pair, left to right, leaves: a rejected
\* pair does not keep the other pairs from being processed, and every edge
\* that is new joins two adjacent elements of the list.  (Stated of the
\* calls that CreateDaisyChainEdges admits: the edges fit under MaxEdges.)
C16_DaisyChainPairByPair ==
    \A vertices \in SeqsUpTo(VertexNames, MaxChain) :
        EdgeCount(dtg.map) + Len(vertices) <= MaxEdges + 1 =>
            LET left == createDaisyChainEdges(dtg.map, vertices)
            IN /\ left = PairByPair(dtg.map, vertices)
               /\ \A a, b \in VerticesOf(dtg.map) :
                      (Edge(left, a, b) /\ ~Edge(dtg.map, a, b)) =>
                          \E i \in 1..(Len(vertices) - 1) :
                              vertices[i] = a /\ vertices[i + 1] = b

\* C16 happens: the graph holds the edges a -> b and b -> c but not a -> c
\* (a chain a, b, c leaves them), and an edge c -> d with d not a vertex is
\* what a chain could not create while creating the others.
C16_Witness ==
    /\ Edge(dtg.map, "a", "b")
    /\ Edge(dtg.map, "b", "c")
    /\ ~Edge(dtg.map, "a", "c")
    /\ "d" \notin VerticesOf(dtg.map)

-----------------------------------------------------------------------------
(* Claims about termination.                                               *)

\* C17 (as claimed): getOrderedCharSet ends without error on every non-empty
\* list of strings, also where stripping leaves empty strings: a group whose
\* words have no symbol left (a word occurring twice, several empty strings)
\* causes no further recursion.
C17_OrderedCharSetReturns ==
    (ret.op = "getOrderedCharSet" /\ NonEmptyStrings(words)) => ret.outcome = "return"

\* a path without its last element
Front(path) == SubSeq(path, 1, Len(path) - 1)

\* C18 (as claimed): getPaths() terminates on every finite graph: a branch
\* of the traversal stops at a leaf or at the first symbol that its own
\* accumulated path holds already, so no returned path repeats a symbol
\* before its last element and none is longer than the number of vertices
\* plus one.
C18_BranchesStop ==
    (ret.op = "getPaths" /\ ret.outcome = "return") =>
        \A i \in DOMAIN ret.paths :
            /\ ~RepeatsSymbol(Front(ret.paths[i]))
            /\ Len(ret.paths[i]) <= Len(dtg.map) + 1

-----------------------------------------------------------------------------
(* Claims about the chains of getOrderedCharSet.                           *)

\* x is before y in a total order of symbols
Precedes(ord, x, y) == Pos(ord, x) > 0 /\ Pos(ord, y) > 0 /\ Pos(ord, x) < Pos(ord, y)

\* C19 (as claimed): chain soundness.  For every word list sorted
\* lexicographically under a total order of its symbols, a proper prefix
\* before its extensions, every adjacent pair (x, y) of every chain that
\* getOrderedCharSet returns has x before y in that order.
C19_ChainsSound ==
    (ret.op = "getOrderedCharSet" /\ NonEmptyStrings(words) /\ ret.outcome = "return") =>
        \A ord \in Orders(CharsOccurring(words)) :
            SortedUnder(WordsOf(words), ord) =>
                \A c \in DOMAIN ret.paths : \A j \in 1..(Len(ret.paths[c]) - 1) :
                    Precedes(ord, ret.paths[c][j], ret.paths[c][j + 1])

\* C20 (as claimed): every chain that getOrderedCharSet returns is a
\* well-formed precedence chain: it has at least 2 elements, no element
\* occurs twice in it, and every element is a single character that occurs
\* in some word of the list.
C20_ChainsWellFormed ==
    (ret.op = "getOrderedCharSet" /\ NonEmptyStrings(words) /\ ret.outcome = "return") =>
        \A c \in DOMAIN ret.paths :
            /\ Len(ret.paths[c]) >= 2
            /\ ~RepeatsSymbol(ret.paths[c])
            /\ Range(ret.paths[c]) \subseteq CharsOccurring(words)

-----------------------------------------------------------------------------
(* Claims about the paths of getPaths().                                   *)

\* a vertex that no edge ends at and no edge starts from
Isolated(m, v) ==
    /\ v \in VerticesOf(m)
    /\ EdgesOf(m, v) = <<>>
    /\ \A u \in VerticesOf(m) : ~Edge(m, u, v)

\* C21 (as claimed): a vertex with no incoming and no outgoing edge
\* contributes the single-element path [v] to getPaths(), as the isolated e
\* does in the example of the method's description.
C21_IsolatedVertexPath ==
    ret.op = "getPaths" =>
        \A v \in VerticesOf(dtg.map) :
            Isolated(dtg.map, v) =>
                /\ ret.outcome = "return"
                /\ \E i \in DOMAIN ret.paths : ret.paths[i] = <<v>>

\* C22 (as claimed): forks do not share a path.  Every path that getPaths()
\* returns is a walk of the graph: it starts at a root and every two
\* consecutive symbols of it are joined by an edge; what happened on a
\* sibling of a fork (a detected cycle) leaves no trace in it.
C22_PathsAreWalks ==
    (ret.op = "getPaths" /\ ret.outcome = "return") =>
        \A i \in DOMAIN ret.paths :
            /\ ret.paths[i] # <<>>
            /\ ret.paths[i][1] \in MarkedRoot(dtg.map)
            /\ \A j \in 1..(Len(ret.paths[i]) - 1) :
                   Edge(dtg.map, ret.paths[i][j], ret.paths[i][j + 1])

\* the positions of a symbol in a path
Occurrences(path, x) == {j \in DOMAIN path : path[j] = x}

\* C23 (as claimed): cycle termination shape.  Every path that getPaths()
\* returns holds at most one repeated symbol, and that symbol occurs twice,
\* the second time as the last element of the path.
C23_RepeatOnlyAtTheEnd ==
    (ret.op = "getPaths" /\ ret.outcome = "return") =>
        \A i \in DOMAIN ret.paths :
            LET path == ret.paths[i]
                repeated == {x \in Range(path) : Cardinality(Occurrences(path, x)) > 1}
            IN /\ Cardinality(repeated) <= 1
               /\ \A x \in repeated :
                      /\ Cardinality(Occurrences(path, x)) = 2
                      /\ Len(path) \in Occurrences(path, x)

-----------------------------------------------------------------------------
(* Claims about the state that the mutators of the graph keep.             *)

\* C24: after any sequence of addVertices, createEdge and
\* createDaisyChainEdges calls, isRootVertex(v) is true if and only if v is a
\* vertex of the graph and no edge of the graph ends at v.
C24_RootIffNoIncomingEdge ==
    \A v \in VertexArgs :
        isRootVertex(dtg.map, v) <=>
            /\ v \in VerticesOf(dtg.map)
            /\ \A u \in VerticesOf(dtg.map) : ~Edge(dtg.map, u, v)

\* C24 happens: two vertices have an edge to each other (each starts an
\* edge and neither is a root), a third vertex is a root that starts an edge,
\* and a vertex name is not in the graph.
C24_Witness ==
    \E a, b, c \in VerticesOf(dtg.map) :
        /\ Edge(dtg.map, a, b) /\ Edge(dtg.map, b, a)
        /\ Edge(dtg.map, c, a) /\ isRootVertex(dtg.map, c)
        /\ VerticesOf(dtg.map) # VertexNames

IsPrefix(s, t) == Len(s) <= Len(t) /\ SubSeq(t, 1, Len(s)) = s

\* the outgoing edges of every vertex: no target twice, never the vertex
\* itself, vertices of the graph only
EdgeListsWellFormed ==
    \A v \in VerticesOf(dtg.map) :
        /\ ~HasDuplicates(EdgesOf(dtg.map, v))
        /\ ~Includes(EdgesOf(dtg.map, v), v)
        /\ Range(EdgesOf(dtg.map, v)) \subseteq VerticesOf(dtg.map)

\* C25: after any sequence of operations, every vertex's outgoing edge list
\* contains no duplicate target, does not contain the vertex itself, contains
\* only vertices of the graph, and lists the targets in the order their edges
\* were created: an operation only ever adds targets at the end of a list.
C25_EdgeListsOrdered ==
    /\ []EdgeListsWellFormed
    /\ [][\A v \in VerticesOf(dtg.map) :
              /\ v \in VerticesOf(dtg'.map)
              /\ IsPrefix(EdgesOf(dtg.map, v), EdgesOf(dtg'.map, v))]_vars

\* C25 happens: a vertex has two outgoing edges, the later one to a vertex
\* that was added before the target of the earlier one, and another vertex has
\* an edge to it.
C25_Witness ==
    \E i, j, k, l \in DOMAIN dtg.map :
        /\ j < k
        /\ dtg.map[i].vertexEnds = <<dtg.map[k].vertexStart, dtg.map[j].vertexStart>>
        /\ i \notin {j, k}
        /\ Includes(dtg.map[l].vertexEnds, dtg.map[i].vertexStart)

\* C26: monotonicity over any sequence of operations.  Once hasVertex(v) is
\* true it stays true, once hasEdge(a, b) is true it stays true, and once
\* isRootVertex(v) is false for an existing vertex it stays false.  (The
\* nodes of the map are the v that hasVertex is true for, the targets in a
\* node's list the b that hasEdge is true for, and the nodes without the
\* root mark the existing v that isRootVertex is false for.)
C26_Monotonic ==
    [][\A i \in DOMAIN dtg.map :
           LET node == dtg.map[i]
           IN /\ hasVertex(dtg'.map, node.vertexStart)
              /\ \A j \in DOMAIN node.vertexEnds :
                     hasEdge(dtg'.map, node.vertexStart, node.vertexEnds[j])
              /\ ~node.isRoot => ~isRootVertex(dtg'.map, node.vertexStart)]_vars

\* C26 happens: every vertex name is in the graph (more than one addVertices
\* call has run), as many edges as the bound allows were created, and the
\* vertex added first has an edge and is not a root.
C26_Witness ==
    /\ VerticesOf(dtg.map) = VertexNames
    /\ EdgeCount(dtg.map) = MaxEdges
    /\ dtg.map[1].vertexEnds # <<>>
    /\ ~isRootVertex(dtg.map, dtg.map[1].vertexStart)

\* C27: vertex classification.  isLeafVertex(v) is true exactly when v
\* exists, is not root and has zero outgoing edges; isBranchVertex(v) is true
\* exactly when v exists, is not root and has more than one outgoing edge; so
\* no vertex is both, a root is neither, and all three predicates are false
\* for a symbol that is not a vertex or is not a string.
C27_Classification ==
    \A v \in VertexArgs :
        /\ isLeafVertex(dtg.map, v) <=>
               /\ v \in VerticesOf(dtg.map)
               /\ ~RootMark(dtg.map, v)
               /\ Len(EdgesOf(dtg.map, v)) = 0
        /\ isBranchVertex(dtg.map, v) <=>
               /\ v \in VerticesOf(dtg.map)
               /\ ~RootMark(dtg.map, v)
               /\ Len(EdgesOf(dtg.map, v)) > 1
        /\ ~(isLeafVertex(dtg.map, v) /\ isBranchVertex(dtg.map, v))
        /\ isRootVertex(dtg.map, v) =>
               ~isLeafVertex(dtg.map, v) /\ ~isBranchVertex(dtg.map, v)
        /\ (v \notin VerticesOf(dtg.map) \/ v = NonStringVertex) =>
               /\ ~isRootVertex(dtg.map, v)
               /\ ~isLeafVertex(dtg.map, v)
               /\ ~isBranchVertex(dtg.map, v)

\* C27 happens: a root has several outgoing edges, a vertex that is no
\* root has exactly one (neither leaf nor branch), and a vertex that is no
\* root has none (a leaf).
C27_Witness ==
    \E s, x, y \in VerticesOf(dtg.map) :
        /\ RootMark(dtg.map, s) /\ Len(EdgesOf(dtg.map, s)) > 1
        /\ ~RootMark(dtg.map, x) /\ Len(EdgesOf(dtg.map, x)) = 1
        /\ ~RootMark(dtg.map, y) /\ Len(EdgesOf(dtg.map, y)) = 0
        /\ isLeafVertex(dtg.map, y)

\* the arguments that addVertices and createDaisyChainEdges reject: a value
\* that is no list, the empty list, a list that holds a value that is no string
InvalidVertexLists ==
    {NonArrayVertices, <<>>}
        \cup {vertices \in SeqsUpTo(VertexArgs, MaxChain) : Includes(vertices, NonStringVertex)}

\* C28: invalid batch input builds no partial state.  addVertices and
\* createDaisyChainEdges called with a non-list, an empty list or a list that
\* holds at least one non-string element add no vertex and no edge, not even
\* for the valid elements of the list.
C28_InvalidBatchChangesNothing ==
    \A vertices \in InvalidVertexLists :
        /\ addVertices(dtg.map, vertices) = dtg.map
        /\ createDaisyChainEdges(dtg.map, vertices) = dtg.map

\* C28 happens: the graph lacks a vertex name that a list with a non-string
\* could add, and holds two vertices with no edge from the first to the
\* second, which a chain with a non-string behind them could join.
C28_Witness ==
    /\ VerticesOf(dtg.map) # VertexNames
    /\ EdgeCount(dtg.map) < MaxEdges
    /\ \E a, b \in VerticesOf(dtg.map) :
           a # b /\ ~Edge(dtg.map, a, b) /\ Edge(dtg.map, b, a)

-----------------------------------------------------------------------------
(* Claims about what extractAlphabetChars takes from the graph.            *)

\* the last entry of a list of paths
LastPath(paths) == paths[Len(paths)]

\* C29 (as claimed): for every non-empty list of strings, the sequence that
\* extractAlphabetChars returns is the last entry of getPaths() on the graph
\* built from all unique symbols and all chains, and no entry of getPaths() is
\* longer than it.
C29_ReturnsLastPath ==
    (ret.op = "extractAlphabetChars" /\ NonEmptyStrings(words)) =>
        /\ ret.outcome = "return"
        /\ ret.type = "array"
        /\ VerticesOf(dtg.map) = CharsOccurring(words)
        /\ LET paths == getPaths(dtg.map)
           IN /\ ~paths.threw
              /\ paths.paths # <<>>
              /\ ret.chars = LastPath(paths.paths)
              /\ \A i \in DOMAIN paths.paths : Len(paths.paths[i]) <= Len(ret.chars)

\* C30: when getLoopCount() is greater than 0 on the built graph,
\* extractAlphabetChars writes the 'not alphabetically sorted' warning and
\* still returns the candidate unchanged, the last entry of getPaths(); when
\* getLoopCount() is 0 that warning is not written.
C30_LoopWarnedNotFatal ==
    (ret.op = "extractAlphabetChars" /\ NonEmptyStrings(words)) =>
        LET loopCount == getLoopCount(dtg.map)
        IN /\ (~loopCount.threw /\ loopCount.count > 0) =>
                  /\ WarnNotSorted \in ret.diags
                  /\ ret.outcome = "return"
                  /\ ret.type = "array"
                  /\ ret.chars = LastPath(getPaths(dtg.map).paths)
           /\ (~loopCount.threw /\ loopCount.count = 0) =>
                  WarnNotSorted \notin ret.diags

\* C30 happens: the call has built a graph with a root and a cycle, and
\* has returned a candidate that ends where the cycle closes.
C30_Witness ==
    /\ ret.op = "extractAlphabetChars"
    /\ NonEmptyStrings(words)
    /\ ret.outcome = "return"
    /\ getLoopCount(dtg.map).count > 0
    /\ RepeatsSymbol(ret.chars)

\* a sequence that holds every symbol of a set exactly once
IsPermutationOf(seq, S) == Range(seq) = S /\ Len(seq) = Cardinality(S)

\* C31 (as claimed): extractAlphabetChars writes the 'not enough
\* information' warning exactly when the built graph is not fully connected or
\* the sorted symbols of the candidate path differ from the sorted unique
\* symbols of the words, and in both cases returns the candidate as computed,
\* the last entry of getPaths().
C31_InsufficientWarnedExactly ==
    (ret.op = "extractAlphabetChars" /\ NonEmptyStrings(words)) =>
        LET paths == getPaths(dtg.map)
            candidate == ~paths.threw /\ paths.paths # <<>>
            differs ==
                \/ ~candidate
                \/ ~IsPermutationOf(LastPath(paths.paths), CharsOccurring(words))
        IN /\ WarnInsufficient \in ret.diags <=> (~isFullyConnected(dtg.map) \/ differs)
           /\ ret.outcome = "return"
           /\ candidate => ret.chars = LastPath(paths.paths)

\* C32 (as claimed): a correctly sorted word list has no loop.  For every
\* word list sorted lexicographically under some total order of its symbols,
\* getLoopCount() on the graph that extractAlphabetChars builds is 0 and the
\* 'not alphabetically sorted' warning is not written.
C32_SortedListHasNoLoop ==
    ( /\ ret.op = "extractAlphabetChars"
      /\ NonEmptyStrings(words)
      /\ \E ord \in Orders(CharsOccurring(words)) : SortedUnder(WordsOf(words), ord) )
    => /\ ~getLoopCount(dtg.map).threw
       /\ getLoopCount(dtg.map).count = 0
       /\ WarnNotSorted \notin ret.diags

\* C33: whenever extractAlphabetChars on a non-empty list of strings returns
\* without writing any warning, the returned sequence is a permutation of
\* getUniqueCharSet(words), every symbol exactly once, and for every edge
\* x -> y of the built graph x occurs before y in it.
C33_SilentResultIsTopological ==
    ( /\ ret.op = "extractAlphabetChars"
      /\ NonEmptyStrings(words)
      /\ ret.outcome = "return"
      /\ ret.diags = {} )
    => /\ ret.type = "array"
       /\ IsPermutationOf(ret.chars, Range(getUniqueCharSet(words).chars))
       /\ IsPermutationOf(ret.chars, CharsOccurring(words))
       /\ \A x, y \in VerticesOf(dtg.map) :
              Edge(dtg.map, x, y) => Precedes(ret.chars, x, y)

\* C33 happens: the call has returned three or more symbols without a
\* warning, from a graph with an edge that skips a symbol of the result.
C33_Witness ==
    /\ ret.op = "extractAlphabetChars"
    /\ NonEmptyStrings(words)
    /\ ret.outcome = "return"
    /\ ret.diags = {}
    /\ Len(ret.chars) >= 3
    /\ \E x, y \in VerticesOf(dtg.map) :
           Edge(dtg.map, x, y) /\ Pos(ret.chars, y) > Pos(ret.chars, x) + 1

-----------------------------------------------------------------------------
(* Claims about the queries of the graph.                                  *)

QueryOps ==
    {"getPaths", "getLoopCount", "isFullyConnected", "hasVertex", "hasEdge",
     "isRootVertex", "isLeafVertex", "isBranchVertex"}

\* C34: the queries getPaths, getLoopCount, isFullyConnected, hasVertex,
\* hasEdge, isRootVertex, isLeafVertex and isBranchVertex leave the graph
\* unchanged (same vertices, same ordered edge lists, same root marks), so a
\* getPaths() that follows a getPaths() with no mutation in between returns
\* an equal result.
C34_QueriesChangeNothing ==
    [][ret'.op \in QueryOps =>
           /\ NamesOf(dtg'.map) = NamesOf(dtg.map)
           /\ \A v \in VerticesOf(dtg.map) :
                  /\ EdgesOf(dtg'.map, v) = EdgesOf(dtg.map, v)
                  /\ RootMark(dtg'.map, v) = RootMark(dtg.map, v)
           /\ (ret.op = "getPaths" /\ ret'.op = "getPaths") => ret' = ret]_vars

\* C34 happens: getPaths() has returned two or more paths of a graph that
\* holds a vertex with several outgoing edges.
C34_Witness ==
    /\ ret.op = "getPaths"
    /\ ret.outcome = "return"
    /\ Len(ret.paths) >= 2
    /\ \E v \in VerticesOf(dtg.map) : isBranchVertex(dtg.map, v)

====
